---- MODULE Spec2Model ----
(***************************************************************************)
(* Model of the Kraken REST client (src/index.ts): the exported signer,    *)
(* the nonce generator, the raw agent (credentials, public GET, private    *)
(* signed POST, upgrade) and the client methods that shape parameters and  *)
(* delegate to the raw agent.                                              *)
(*                                                                         *)
(* JavaScript runs one synchronous section at a time.  An async function   *)
(* runs synchronously up to its first await, so a whole call up to and     *)
(* including the invocation of axios is one atomic step; the settlement of *)
(* the axios promise is a later step of the transport.                     *)
(*                                                                         *)
(* JS strings are TLA+ strings and + / template literals are \o.  JS       *)
(* values of mixed type are tagged tuples: <<"num", n>>, <<"str", s>>,     *)
(* <<"bool", b>>, <<"undef">>.  A JS object is a sequence of <<key, value>>*)
(* pairs in insertion order.  A private key is a sequence of characters.   *)
(* SHA-256, HMAC-SHA512 and the base64 encoding are free constructors.     *)
(***************************************************************************)
EXTENDS Integers, Sequences, FiniteSets, TLC

(* ------------------------------ bounds --------------------------------- *)

\* Calls to endpoint operations (raw agent or client methods) in one run.
MaxCalls == 2

\* Readings of the millisecond wall clock: 1 .. MaxClock.
MaxClock == 2

\* Endpoint calls in one run of the request-shaping specification.
MaxShapeCalls == 1
MaxClientCalls == 2

(* ------------------------- JS values and objects ----------------------- *)

Num(n) == <<"num", n>>
Str(s) == <<"str", s>>
Bool(b) == <<"bool", b>>
Undef == <<"undef">>
\* An object: its properties as <<key, value>> pairs in insertion order.
Obj(props) == <<"obj", props>>

IsObj(v) == v[1] = "obj"

\* JS truthiness of the values the model uses ("" , 0, false, undefined are falsy).
Truthy(v) ==
    CASE v[1] = "undef" -> FALSE
      [] v[1] = "bool" -> v[2]
      [] v[1] = "num" -> v[2] # 0
      [] v[1] = "str" -> v[2] # ""
      [] OTHER -> TRUE

\* String(v), as + and qs apply it to a primitive.
JsToString(v) ==
    CASE v[1] = "num" -> ToString(v[2])
      [] v[1] = "str" -> v[2]
      [] v[1] = "bool" -> (IF v[2] THEN "true" ELSE "false")
      [] OTHER -> "undefined"

Keys(o) == IF IsObj(o) THEN {o[2][i][1] : i \in 1..Len(o[2])} ELSE {}

\* o[key]: undefined when the object has no such property.
Get(o, key) ==
    IF key \in Keys(o)
    THEN o[2][CHOOSE i \in 1..Len(o[2]) : o[2][i][1] = key][2]
    ELSE Undef

\* o[key] = value: overwrites in place, a new key is appended.
Set(o, key, value) ==
    IF key \in Keys(o)
    THEN Obj([i \in 1..Len(o[2]) |->
                 IF o[2][i][1] = key THEN <<key, value>> ELSE o[2][i]])
    ELSE Obj(Append(o[2], <<key, value>>))

\* { ...a, ...b }: spreading undefined adds nothing.
RECURSIVE SpreadProps(_, _)
SpreadProps(a, props) ==
    IF props = <<>> THEN a
    ELSE SpreadProps(Set(a, Head(props)[1], Head(props)[2]), Tail(props))

Spread(a, b) == IF IsObj(b) THEN SpreadProps(a, b[2]) ELSE a

(* ------------------------------ qs.stringify --------------------------- *)

\* encodeURIComponent on the strings the model uses: only the bracketed
\* keys contain characters it escapes.
UrlEncode(s) ==
    CASE s = "close[type]" -> "close%5Btype%5D"
      [] s = "close[ordertype]" -> "close%5Bordertype%5D"
      [] s = "close[price]" -> "close%5Bprice%5D"
      [] s = "close[price2]" -> "close%5Bprice2%5D"
      [] OTHER -> s

\* The key=value parts of qs.stringify, in property order; a property whose
\* value is undefined is skipped.
RECURSIVE QsPairs(_)
QsPairs(props) ==
    IF props = <<>> THEN <<>>
    ELSE LET p == Head(props)
         IN IF p[2] = Undef THEN QsPairs(Tail(props))
            ELSE <<UrlEncode(p[1]) \o "=" \o UrlEncode(JsToString(p[2]))>>
                     \o QsPairs(Tail(props))

RECURSIVE JoinAmp(_)
JoinAmp(parts) ==
    IF parts = <<>> THEN ""
    ELSE IF Len(parts) = 1 THEN parts[1]
    ELSE parts[1] \o "&" \o JoinAmp(Tail(parts))

\* qs.stringify(o): "" for undefined or null.
QsStringify(o) == IF IsObj(o) THEN JoinAmp(QsPairs(o[2])) ELSE ""

(* ------------------------------- crypto -------------------------------- *)

\* The characters of the private-key strings the model uses.
Chars(s) ==
    CASE s = "a2V5" -> <<"a", "2", "V", "5">>
      [] s = "Zm9v" -> <<"Z", "m", "9", "v">>
      [] s = "Zm!9v" -> <<"Z", "m", "!", "9", "v">>
      [] s = "a2=V5" -> <<"a", "2", "=", "V", "5">>
      [] s = "a2U=" -> <<"a", "2", "U", "=">>
      [] OTHER -> <<>>

Base64Alphabet ==
    {"A","B","C","D","E","F","G","H","I","J","K","L","M","N","O","P","Q","R",
     "S","T","U","V","W","X","Y","Z","a","b","c","d","e","f","g","h","i","j",
     "k","l","m","n","o","p","q","r","s","t","u","v","w","x","y","z","0","1",
     "2","3","4","5","6","7","8","9","+","/"}

\* Well-formed base64: alphabet characters, then at most '=' padding.
IsValidBase64(s) ==
    LET cs == Chars(s)
    IN \A i \in 1..Len(cs) :
          \/ cs[i] \in Base64Alphabet
          \/ cs[i] = "=" /\ \A j \in i..Len(cs) : cs[j] = "="

\* new Buffer(s, 'base64'): never fails on a string; characters outside the
\* alphabet are skipped and decoding stops at the first '='.  The result is
\* the sequence of decoded sextets, written with their alphabet characters.
RECURSIVE DecodeChars(_)
DecodeChars(cs) ==
    IF cs = <<>> THEN ""
    ELSE IF Head(cs) = "=" THEN ""
    ELSE IF Head(cs) \in Base64Alphabet THEN Head(cs) \o DecodeChars(Tail(cs))
    ELSE DecodeChars(Tail(cs))

BufferFromBase64(s) == DecodeChars(Chars(s))

\* crypto.createHash('sha256').update(s).digest('latin1'), a free constructor.
Sha256Latin1(s) == "sha256(" \o s \o ")"

\* crypto.createHmac('sha512', key).update(msg, 'latin1').digest('base64'),
\* a free constructor.
HmacSha512Base64(key, msg) == "base64(hmac-sha512(" \o key \o ";" \o msg \o "))"

\* A thrown exception, as the value an operator yields instead of a result.
Throw(e) == <<"throw", e>>
IsThrow(v) == v[1] = "throw"

TypeError == Str("TypeError")

\* signMessage with a strict decoder: a key that is not well-formed base64
\* makes it throw.
signMessageStrict(path, postBody, privateKey) ==
    IF privateKey[1] # "str" \/ ~IsObj(postBody) THEN Throw(TypeError)
    ELSE IF ~IsValidBase64(privateKey[2]) THEN Throw(Str("InvalidKeyEncoding"))
    ELSE
    LET message == QsStringify(postBody)
        decryptedKey == BufferFromBase64(privateKey[2])
        hashDigest == Sha256Latin1(JsToString(Get(postBody, "nonce")) \o message)
    IN Str(HmacSha512Base64(decryptedKey, path \o hashDigest))

\* signMessage hashing the nonce after the message instead of before it.
signMessageNonceLast(path, postBody, privateKey) ==
    IF privateKey[1] # "str" \/ ~IsObj(postBody) THEN Throw(TypeError)
    ELSE
    LET message == QsStringify(postBody)
        decryptedKey == BufferFromBase64(privateKey[2])
        hashDigest == Sha256Latin1(message \o JsToString(Get(postBody, "nonce")))
    IN Str(HmacSha512Base64(decryptedKey, path \o hashDigest))

\* signMessage(path, postBody, privateKey): the signature string.  Buffer
\* throws a TypeError on a key that is no string, and reading .nonce of a
\* body that is no object throws too; on strings nothing in it can fail.
signMessage(path, postBody, privateKey) ==
    IF privateKey[1] # "str" \/ ~IsObj(postBody) THEN Throw(TypeError)
    ELSE
    LET message == QsStringify(postBody)
        decryptedKey == BufferFromBase64(privateKey[2])
        hashDigest == Sha256Latin1(JsToString(Get(postBody, "nonce")) \o message)
    IN Str(HmacSha512Base64(decryptedKey, path \o hashDigest))

(* -------------------------------- nonce -------------------------------- *)

NonceScale == 1000

\* Date.now() * 1000, at the clock reading t.
generateNonce(t) == t * NonceScale

(* ---------------------------- configuration ---------------------------- *)

defaultConfig ==
    Obj(<< <<"rootUrl", Str("https://api.kraken.com")>>,
           <<"timeout", Num(15000)>>,
           <<"version", Num(0)>> >>)

defaultAgentConfig ==
    Obj(<< <<"baseURL", Get(defaultConfig, "rootUrl")>>,
           <<"headers", Obj(<< <<"User-Agent",
                 Str("Kraken API Client (kraken-cryptoexchange-api node package)")>> >>)>>,
           <<"method", Str("GET")>>,
           <<"timeout", Get(defaultConfig, "timeout")>> >>)

publicAgentConfig == Spread(defaultAgentConfig, Undef)

privateAgentConfig == Spread(defaultAgentConfig, Obj(<< <<"method", Str("POST")>> >>))

(* ------------------------------ raw agent ------------------------------ *)

NotAuthenticated == Str("api keys are required to access private endpoints")

\* IApiAuth
ApiAuth(publicKey, privateKey) ==
    Obj(<< <<"publicKey", Str(publicKey)>>, <<"privateKey", Str(privateKey)>> >>)

\* What the synchronous part of an endpoint call leaves behind: the bodies
\* it passed to postToPrivateEndpoint (post), the requests it handed to
\* axios, each with the state of the promise axios returned for it (reqs),
\* and the state of the promise the call itself returned.
Rejected(e) == [post |-> <<>>, reqs |-> <<>>, status |-> "rejected", value |-> e]

Axios(agentConfig) == [config |-> agentConfig, state |-> "pending", result |-> Undef]

Awaiting(post, agentConfig) ==
    [post |-> post, reqs |-> <<Axios(agentConfig)>>, status |-> "pending", value |-> Undef]

\* isUpgraded(): returns this.auth itself; callers use its truthiness.
isUpgraded(a) == a

\* getPublicEndpoint up to its await.
getPublicEndpoint(a, endpoint, queryParams, configOverride) ==
    LET config == Spread(defaultConfig, configOverride)
        uri == "/" \o JsToString(Get(config, "version")) \o "/public/" \o endpoint
                   \o "?" \o QsStringify(queryParams)
        agentConfig == Set(publicAgentConfig, "url", Str(uri))
    IN Awaiting(<<>>, agentConfig)

\* postToPrivateEndpoint without its credential check, reading the keys
\* defensively: (this.auth || {}).publicKey.
postToPrivateEndpointUngated(a, endpoint, data, configOverride) ==
    LET config == Spread(defaultConfig, configOverride)
        uri == "/" \o JsToString(Get(config, "version")) \o "/private/" \o endpoint
        sign == signMessage(uri, data, Str(JsToString(Get(a, "privateKey"))))
        headers ==
            Set(Set(Get(privateAgentConfig, "headers"),
                    "API-Key", Get(a, "publicKey")),
                "API-Sign", sign)
        agentConfig ==
            Set(Set(Set(privateAgentConfig, "headers", headers),
                    "url", Str(uri)),
                "data", Str(QsStringify(data)))
    IN IF IsThrow(sign) THEN Rejected(sign[2])
       ELSE Awaiting(<< <<Str(endpoint), data, configOverride>> >>, agentConfig)

\* postToPrivateEndpoint signing the endpoint name instead of the path.
postToPrivateEndpointSignsName(a, endpoint, data, configOverride) ==
    IF ~Truthy(isUpgraded(a)) THEN Rejected(NotAuthenticated)
    ELSE
    LET config == Spread(defaultConfig, configOverride)
        uri == "/" \o JsToString(Get(config, "version")) \o "/private/" \o endpoint
        sign == signMessage(endpoint, data, Get(a, "privateKey"))
        headers ==
            Set(Set(Get(privateAgentConfig, "headers"),
                    "API-Key", Get(a, "publicKey")),
                "API-Sign", sign)
        agentConfig ==
            Set(Set(Set(privateAgentConfig, "headers", headers),
                    "url", Str(uri)),
                "data", Str(QsStringify(data)))
    IN IF IsThrow(sign) THEN Rejected(sign[2])
       ELSE Awaiting(<< <<Str(endpoint), data, configOverride>> >>, agentConfig)

\* postToPrivateEndpoint up to its await.
postToPrivateEndpoint(a, endpoint, data, configOverride) ==
    IF ~Truthy(isUpgraded(a)) THEN Rejected(NotAuthenticated)
    ELSE
    LET config == Spread(defaultConfig, configOverride)
        uri == "/" \o JsToString(Get(config, "version")) \o "/private/" \o endpoint
        sign == signMessage(uri, data, Get(a, "privateKey"))
        headers ==
            Set(Set(Get(privateAgentConfig, "headers"),
                    "API-Key", Get(a, "publicKey")),
                "API-Sign", sign)
        agentConfig ==
            Set(Set(Set(privateAgentConfig, "headers", headers),
                    "url", Str(uri)),
                "data", Str(QsStringify(data)))
    IN IF IsThrow(sign) THEN Rejected(sign[2])
       ELSE Awaiting(<< <<Str(endpoint), data, configOverride>> >>, agentConfig)

\* upgrade merging into the credentials already held: the old fields win.
upgradeMerge(a, newAuth) == Spread(newAuth, a)

\* upgrade storing the public key only.
upgradeKeyOnly(a, newAuth) ==
    Set(Obj(<<>>), "publicKey", Get(newAuth, "publicKey"))

\* upgrade(newAuth): this.auth = newAuth.
upgrade(a, newAuth) == newAuth

\* The await with one retry: a rejected first request is sent again.
AwaitAxiosRetry(call) ==
    IF call.reqs[Len(call.reqs)].state = "rejected" /\ Len(call.reqs) = 1
    THEN [call EXCEPT !.reqs = Append(call.reqs,
                                      [call.reqs[1] EXCEPT !.state = "pending",
                                                           !.result = Undef])]
    ELSE [call EXCEPT !.status = call.reqs[Len(call.reqs)].state,
                      !.value = call.reqs[Len(call.reqs)].result]

\* return Promise.resolve(await axios(agentConfig)): once axios has settled,
\* the call settles the same way with the same value; nothing is sent again.
AwaitAxios(call) ==
    [call EXCEPT !.status = call.reqs[Len(call.reqs)].state,
                 !.value = call.reqs[Len(call.reqs)].result]

(* ---------------------------- client methods --------------------------- *)

\* (({ f1, f2 }) => ({ nonce, f1, f2 }))(queryParams)
RECURSIVE PickInto(_, _, _)
PickInto(o, queryParams, fields) ==
    IF fields = <<>> THEN o
    ELSE PickInto(Set(o, Head(fields), Get(queryParams, Head(fields))),
                  queryParams, Tail(fields))

\* { nonce }
WithNonce(nonce) == Obj(<< <<"nonce", Num(nonce)>> >>)

getAccountBalance(a, nonce, queryParams) ==
    postToPrivateEndpoint(a, "Balance", WithNonce(nonce), Undef)

\* getTradeBalance leaving the nonce out of the shaped parameters.
getTradeBalanceNoNonce(a, nonce, queryParams) ==
    LET params == IF Truthy(queryParams)
                  THEN PickInto(Obj(<<>>), queryParams, <<"aclass", "asset">>)
                  ELSE WithNonce(nonce)
    IN postToPrivateEndpoint(a, "TradeBalance", params, Undef)

getTradeBalance(a, nonce, queryParams) ==
    LET params == IF Truthy(queryParams)
                  THEN PickInto(WithNonce(nonce), queryParams, <<"aclass", "asset">>)
                  ELSE WithNonce(nonce)
    IN postToPrivateEndpoint(a, "TradeBalance", params, Undef)

\* queryParams['fee-info'] is read whether or not queryParams was given.
getTradeVolume(a, nonce, queryParams) ==
    LET params == IF Truthy(queryParams)
                  THEN PickInto(WithNonce(nonce), queryParams, <<"pair">>)
                  ELSE WithNonce(nonce)
    IN IF ~IsObj(queryParams) THEN Rejected(TypeError)
       ELSE postToPrivateEndpoint(a, "TradeVolume",
                Set(params, "fee-info", Get(queryParams, "fee-info")), Undef)

\* A method of the form queryParams ? (({ f.. }) => ({ nonce, f.. }))(queryParams)
\* : { nonce }, posting the result.
ShapeOptional(a, endpoint, nonce, queryParams, fields) ==
    LET params == IF Truthy(queryParams)
                  THEN PickInto(WithNonce(nonce), queryParams, fields)
                  ELSE WithNonce(nonce)
    IN postToPrivateEndpoint(a, endpoint, params, Undef)

\* A method of the form (({ f.. }) => ({ nonce, f.. }))(queryParams), posting
\* the result: destructuring undefined throws a TypeError.
ShapeRequired(a, endpoint, nonce, queryParams, fields) ==
    IF ~IsObj(queryParams) THEN Rejected(TypeError)
    ELSE postToPrivateEndpoint(a, endpoint,
             PickInto(WithNonce(nonce), queryParams, fields), Undef)

getOpenOrders(a, nonce, queryParams) ==
    ShapeOptional(a, "OpenOrders", nonce, queryParams, <<"trades", "userref">>)

getClosedOrders(a, nonce, queryParams) ==
    ShapeOptional(a, "ClosedOrders", nonce, queryParams,
                  <<"trades", "userref", "start", "end", "ofs", "closetime">>)

queryOrdersInfo(a, nonce, queryParams) ==
    ShapeOptional(a, "QueryOrders", nonce, queryParams, <<"trades", "userref", "txid">>)

getTradesHistory(a, nonce, queryParams) ==
    ShapeOptional(a, "TradesHistory", nonce, queryParams,
                  <<"type", "trades", "start", "end", "ofs">>)

queryTradesInfo(a, nonce, queryParams) ==
    ShapeRequired(a, "QueryTrades", nonce, queryParams, <<"txid", "trades">>)

getOpenPositions(a, nonce, queryParams) ==
    ShapeRequired(a, "OpenPositions", nonce, queryParams, <<"txid", "docalcs">>)

getLedgersInfo(a, nonce, queryParams) ==
    ShapeOptional(a, "Ledgers", nonce, queryParams,
                  <<"aclass", "asset", "type", "start", "end", "ofs">>)

queryLedgers(a, nonce, queryParams) ==
    ShapeRequired(a, "QueryLedgers", nonce, queryParams, <<"id">>)

\* addStandardOrder nesting the close fields in one close object.
addStandardOrderNested(a, nonce, queryParams) ==
    IF ~IsObj(queryParams) THEN Rejected(TypeError)
    ELSE
    LET required == PickInto(WithNonce(nonce), queryParams, <<"pair", "type", "ordertype">>)
        optional == PickInto(Obj(<<>>), queryParams,
                        <<"price", "price2", "volume", "leverage", "oflags",
                          "starttm", "expiretm", "userref", "validate">>)
        close == Obj(<< <<"type", Get(queryParams, "close[type]")>>,
                        <<"price", Get(queryParams, "close[price]")>>,
                        <<"price2", Get(queryParams, "close[price2]")>> >>)
        params == Set(Spread(required, optional), "close", close)
    IN postToPrivateEndpoint(a, "AddOrder", params, Undef)

addStandardOrder(a, nonce, queryParams) ==
    IF ~IsObj(queryParams) THEN Rejected(TypeError)
    ELSE
    LET required == PickInto(WithNonce(nonce), queryParams, <<"pair", "type", "ordertype">>)
        optional == PickInto(Obj(<<>>), queryParams,
                        <<"price", "price2", "volume", "leverage", "oflags",
                          "starttm", "expiretm", "userref", "validate">>)
        optionalClose == PickInto(Obj(<<>>), queryParams,
                        <<"close[type]", "close[price]", "close[price2]">>)
        params == Spread(Spread(required, optional), optionalClose)
    IN postToPrivateEndpoint(a, "AddOrder", params, Undef)

cancelOpenOrder(a, nonce, queryParams) ==
    ShapeRequired(a, "CancelOrder", nonce, queryParams, <<"txid">>)

getDepositMethods(a, nonce, queryParams) ==
    ShapeRequired(a, "DepositMethods", nonce, queryParams, <<"aclass", "asset">>)

getDepositAddresses(a, nonce, queryParams) ==
    IF ~IsObj(queryParams) THEN Rejected(TypeError)
    ELSE postToPrivateEndpoint(a, "DepositAddresses",
             Set(PickInto(WithNonce(nonce), queryParams, <<"aclass", "asset", "method">>),
                 "new", Get(queryParams, "new")), Undef)

getStatusOfRecentDeposits(a, nonce, queryParams) ==
    ShapeRequired(a, "DepositMethods", nonce, queryParams, <<"aclass", "asset">>)

getWithdrawalInformation(a, nonce, queryParams) ==
    ShapeRequired(a, "DepositMethods", nonce, queryParams, <<"aclass", "asset">>)

withdrawFunds(a, nonce, queryParams) ==
    ShapeRequired(a, "DepositMethods", nonce, queryParams, <<"aclass", "asset">>)

getStatusOfRecentWithdrawals(a, nonce, queryParams) ==
    ShapeRequired(a, "DepositMethods", nonce, queryParams, <<"aclass", "asset">>)

requestWithdrawalCancellation(a, nonce, queryParams) ==
    ShapeRequired(a, "DepositMethods", nonce, queryParams, <<"aclass", "asset">>)

FundingMethods ==
    {"getDepositMethods", "getStatusOfRecentDeposits", "getWithdrawalInformation",
     "withdrawFunds", "getStatusOfRecentWithdrawals", "requestWithdrawalCancellation"}

PrivateMethods ==
    {"getAccountBalance", "getTradeBalance", "getOpenOrders", "getClosedOrders",
     "queryOrdersInfo", "getTradesHistory", "queryTradesInfo", "getOpenPositions",
     "getLedgersInfo", "queryLedgers", "getTradeVolume", "addStandardOrder",
     "cancelOpenOrder", "getDepositAddresses"} \cup FundingMethods

ClientPrivate(method, a, nonce, queryParams) ==
    CASE method = "getAccountBalance" -> getAccountBalance(a, nonce, queryParams)
      [] method = "getTradeBalance" -> getTradeBalance(a, nonce, queryParams)
      [] method = "getOpenOrders" -> getOpenOrders(a, nonce, queryParams)
      [] method = "getClosedOrders" -> getClosedOrders(a, nonce, queryParams)
      [] method = "queryOrdersInfo" -> queryOrdersInfo(a, nonce, queryParams)
      [] method = "getTradesHistory" -> getTradesHistory(a, nonce, queryParams)
      [] method = "queryTradesInfo" -> queryTradesInfo(a, nonce, queryParams)
      [] method = "getOpenPositions" -> getOpenPositions(a, nonce, queryParams)
      [] method = "getLedgersInfo" -> getLedgersInfo(a, nonce, queryParams)
      [] method = "queryLedgers" -> queryLedgers(a, nonce, queryParams)
      [] method = "getTradeVolume" -> getTradeVolume(a, nonce, queryParams)
      [] method = "addStandardOrder" -> addStandardOrder(a, nonce, queryParams)
      [] method = "cancelOpenOrder" -> cancelOpenOrder(a, nonce, queryParams)
      [] method = "getDepositMethods" -> getDepositMethods(a, nonce, queryParams)
      [] method = "getDepositAddresses" -> getDepositAddresses(a, nonce, queryParams)
      [] method = "getStatusOfRecentDeposits" ->
            getStatusOfRecentDeposits(a, nonce, queryParams)
      [] method = "getWithdrawalInformation" ->
            getWithdrawalInformation(a, nonce, queryParams)
      [] method = "withdrawFunds" -> withdrawFunds(a, nonce, queryParams)
      [] method = "getStatusOfRecentWithdrawals" ->
            getStatusOfRecentWithdrawals(a, nonce, queryParams)
      [] method = "requestWithdrawalCancellation" ->
            requestWithdrawalCancellation(a, nonce, queryParams)

(* ------------------------ public client methods ------------------------ *)

Null == <<"null">>

\* (({ f.. }) => ({ f.. }))(queryParams)
PublicRequired(a, endpoint, queryParams, fields) ==
    IF ~IsObj(queryParams) THEN Rejected(TypeError)
    ELSE getPublicEndpoint(a, endpoint, PickInto(Obj(<<>>), queryParams, fields), Undef)

\* queryParams ? (({ f.. }) => ({ f.. }))(queryParams) : null
PublicOptional(a, endpoint, queryParams, fields) ==
    getPublicEndpoint(a, endpoint,
        IF Truthy(queryParams) THEN PickInto(Obj(<<>>), queryParams, fields) ELSE Null,
        Undef)

getServerTime(a, queryParams) == getPublicEndpoint(a, "Time", Undef, Undef)

getAssetInfo(a, queryParams) ==
    PublicOptional(a, "Assets", queryParams, <<"info", "aclass", "asset">>)

getTradableAssetPairs(a, queryParams) ==
    PublicOptional(a, "AssetPairs", queryParams, <<"info", "pair">>)

\* getTickerInformation forwarding its whole argument.
getTickerInformationAll(a, queryParams) ==
    IF ~IsObj(queryParams) THEN Rejected(TypeError)
    ELSE getPublicEndpoint(a, "Ticker", queryParams, Undef)

getTickerInformation(a, queryParams) ==
    PublicRequired(a, "Ticker", queryParams, <<"pair">>)

getOhlcData(a, queryParams) ==
    PublicRequired(a, "OHLC", queryParams, <<"pair", "interval", "since">>)

getOrderBook(a, queryParams) ==
    PublicRequired(a, "Depth", queryParams, <<"pair", "count">>)

getRecentTrades(a, queryParams) ==
    PublicRequired(a, "Trades", queryParams, <<"pair", "since">>)

getRecentSpreadData(a, queryParams) ==
    PublicRequired(a, "Spread", queryParams, <<"pair", "since">>)

PublicMethods ==
    {"getServerTime", "getAssetInfo", "getTradableAssetPairs", "getTickerInformation",
     "getOhlcData", "getOrderBook", "getRecentTrades", "getRecentSpreadData"}

ClientPublic(method, a, queryParams) ==
    CASE method = "getServerTime" -> getServerTime(a, queryParams)
      [] method = "getAssetInfo" -> getAssetInfo(a, queryParams)
      [] method = "getTradableAssetPairs" -> getTradableAssetPairs(a, queryParams)
      [] method = "getTickerInformation" -> getTickerInformation(a, queryParams)
      [] method = "getOhlcData" -> getOhlcData(a, queryParams)
      [] method = "getOrderBook" -> getOrderBook(a, queryParams)
      [] method = "getRecentTrades" -> getRecentTrades(a, queryParams)
      [] method = "getRecentSpreadData" -> getRecentSpreadData(a, queryParams)

(* -------------------------------- state -------------------------------- *)

VARIABLES
    auth,     \* rawAgent.auth: undefined or the credentials object
    now,      \* the reading of Date.now()
    calls     \* every call made so far, in order

vars == <<auth, now, calls>>

\* A call: the operation and its arguments, this.auth when it started, the
\* nonces it generated, and what it left behind.
Call(op, args, gen, out) ==
    [op |-> op, args |-> args, authAt |-> auth, gen |-> gen, post |-> out.post,
     reqs |-> out.reqs, status |-> out.status, value |-> out.value]

\* A synchronous operation that returned v.
Returned(v) == [post |-> <<>>, reqs |-> <<>>, status |-> "returned", value |-> v]

(* -------------------------------- inputs ------------------------------- *)

KeyValid == "a2V5"
KeyInvalid == "Zm!9v"

Credentials == {ApiAuth("pubA", KeyValid), ApiAuth("pubB", KeyInvalid)}

\* Keys given to signMessage directly: the two above, a padded one and one
\* with '=' in the middle.
SignKeys == {KeyValid, KeyInvalid, "a2U=", "a2=V5"}

Responses == {Str("response")}
TransportErrors == {Str("ETIMEDOUT")}

\* Bodies passed to postToPrivateEndpoint directly: none or a caller's nonce.
Bodies == {Obj(<<>>), WithNonce(7)}

Overrides ==
    {Undef,
     Obj(<< <<"version", Num(1)>> >>),
     Obj(<< <<"timeout", Num(1000)>> >>),
     Obj(<< <<"rootUrl", Str("http://localhost")>> >>)}

ShapeBodies == Bodies \cup {Set(WithNonce(7), "otp", Str("123456"))}

\* Arguments of signMessage called on its own: bodies with and without a
\* nonce, under two paths.
SignBodies == ShapeBodies \cup {Obj(<< <<"otp", Str("123456")>> >>)}
SignPaths == {"/0/private/Balance", "/0/private/AddOrder"}

Queries == {Undef, Obj(<< <<"pair", Str("XBTUSD")>> >>)}

QueryParams ==
    {Undef,
     Obj(<< <<"asset", Str("ZUSD")>> >>),
     Obj(<< <<"aclass", Str("currency")>>, <<"asset", Str("ZUSD")>>,
            <<"pair", Str("XBTUSD")>>, <<"fee-info", Str("true")>> >>)}

\* Client calls of the agent's life: a method without parameters, and one
\* whose parameter object is optional, called without it.
ClientInputs ==
    {<<"getAccountBalance", Undef>>, <<"getTradeBalance", Undef>>,
     <<"getTradeVolume", Undef>>}

\* The parameter fields each private client method declares.
DeclaredFields(method) ==
    CASE method = "getAccountBalance" -> <<>>
      [] method = "getTradeBalance" -> <<"aclass", "asset">>
      [] method = "getOpenOrders" -> <<"trades", "userref">>
      [] method = "getClosedOrders" ->
            <<"trades", "userref", "start", "end", "ofs", "closetime">>
      [] method = "queryOrdersInfo" -> <<"trades", "userref", "txid">>
      [] method = "getTradesHistory" -> <<"type", "trades", "start", "end", "ofs">>
      [] method = "queryTradesInfo" -> <<"txid", "trades">>
      [] method = "getOpenPositions" -> <<"txid", "docalcs">>
      [] method = "getLedgersInfo" ->
            <<"aclass", "asset", "type", "start", "end", "ofs">>
      [] method = "queryLedgers" -> <<"id">>
      [] method = "getTradeVolume" -> <<"pair", "fee-info">>
      [] method = "addStandardOrder" ->
            <<"pair", "type", "ordertype", "price", "price2", "volume", "leverage",
              "oflags", "starttm", "expiretm", "userref", "validate",
              "close[ordertype]", "close[price]", "close[price2]">>
      [] method = "cancelOpenOrder" -> <<"txid">>
      [] method = "getDepositMethods" -> <<"aclass", "asset">>
      [] method = "getDepositAddresses" -> <<"aclass", "asset", "method", "new">>
      [] method = "getStatusOfRecentDeposits" -> <<"aclass", "asset", "method">>
      [] method = "getWithdrawalInformation" -> <<"aclass", "asset", "key", "amount">>
      [] method = "withdrawFunds" -> <<"aclass", "asset", "key", "amount">>
      [] method = "getStatusOfRecentWithdrawals" -> <<"aclass", "asset", "method">>
      [] method = "requestWithdrawalCancellation" -> <<"aclass", "asset", "refid">>

\* The methods whose parameter object the client interface declares optional.
OptionalParamMethods ==
    {"getTradeBalance", "getOpenOrders", "getClosedOrders", "getTradesHistory",
     "getLedgersInfo", "getTradeVolume"}

\* A value of the declared type of a parameter field.
SampleValue(field) ==
    CASE field \in {"trades", "docalcs", "validate", "new"} -> Bool(TRUE)
      [] field \in {"ofs", "price", "price2", "volume", "leverage", "amount",
                    "close[price]", "close[price2]"} -> Num(3)
      [] field = "pair" -> Str("XBTUSD")
      [] field = "asset" -> Str("ZUSD")
      [] field = "aclass" -> Str("currency")
      [] field \in {"ordertype", "close[ordertype]"} -> Str("limit")
      [] OTHER -> Str("v")

\* A parameter object supplying every declared field of the method.
FullParams(method) ==
    LET fields == DeclaredFields(method)
    IN Obj([i \in 1..Len(fields) |-> <<fields[i], SampleValue(fields[i])>>])

\* Each private client method with every declared field supplied, and each
\* method that takes no or an optional parameter object called without it.
ClientCalls ==
    {<<m, FullParams(m)>> : m \in PrivateMethods \ {"getAccountBalance"}}
        \cup {<<m, Undef>> : m \in OptionalParamMethods \cup {"getAccountBalance"}}

\* Orders: the required fields only, and with the three close fields.
OrderParams ==
    {Obj(<< <<"pair", Str("XBTUSD")>>, <<"type", Str("buy")>>,
            <<"ordertype", Str("market")>>, <<"volume", Num(1)>> >>),
     Obj(<< <<"pair", Str("XBTUSD")>>, <<"type", Str("buy")>>,
            <<"ordertype", Str("limit")>>, <<"price", Num(2)>>, <<"volume", Num(1)>>,
            <<"close[ordertype]", Str("limit")>>, <<"close[price]", Num(3)>>,
            <<"close[price2]", Num(4)>> >>)}

\* Client calls whose request shape is examined one at a time.
ShapeClientInputs ==
    ({"getAccountBalance", "getTradeBalance", "getTradeVolume"} \X QueryParams)
        \cup ({"addStandardOrder"} \X OrderParams)

\* Public client calls: a ticker query carries more than the pair.
PublicInputs ==
    {<<"getServerTime", Undef>>,
     <<"getAssetInfo", Undef>>,
     <<"getAssetInfo", Obj(<< <<"asset", Str("ZUSD")>> >>)>>,
     <<"getTradableAssetPairs", Obj(<< <<"pair", Str("XBTUSD")>> >>)>>,
     <<"getTickerInformation", Obj(<< <<"pair", Str("XBTUSD")>> >>)>>,
     <<"getTickerInformation",
       Obj(<< <<"pair", Str("ETHUSD")>>, <<"since", Num(5)>> >>)>>,
     <<"getOhlcData", Obj(<< <<"pair", Str("XBTUSD")>>, <<"interval", Num(5)>> >>)>>,
     <<"getOrderBook", Obj(<< <<"pair", Str("XBTUSD")>>, <<"count", Num(3)>> >>)>>,
     <<"getRecentTrades", Obj(<< <<"pair", Str("XBTUSD")>> >>)>>,
     <<"getRecentSpreadData", Obj(<< <<"pair", Str("XBTUSD")>>, <<"since", Num(5)>> >>)>>}

(* -------------------------------- actions ------------------------------ *)

Init ==
    /\ auth \in {Undef} \cup Credentials
    /\ now = 1
    /\ calls = <<>>

\* The wall clock advances by a millisecond.
Tick ==
    /\ now < MaxClock
    /\ now' = now + 1
    /\ UNCHANGED <<auth, calls>>

CallUpgrade(newAuth) ==
    /\ auth' = upgrade(auth, newAuth)
    /\ calls' = Append(calls, Call("upgrade", <<newAuth>>, <<>>, Returned(Undef)))
    /\ UNCHANGED now

CallIsUpgraded ==
    /\ calls' = Append(calls, Call("isUpgraded", <<>>, <<>>, Returned(isUpgraded(auth))))
    /\ UNCHANGED <<auth, now>>

CallGenerateNonce ==
    /\ calls' = Append(calls, Call("generateNonce", <<>>, <<generateNonce(now)>>,
                                   Returned(Num(generateNonce(now)))))
    /\ UNCHANGED <<auth, now>>

\* The exported signMessage, called on its own.
CallSignMessage(path, postBody, privateKey) ==
    LET sign == signMessage(path, postBody, Str(privateKey))
    IN /\ calls' = Append(calls, Call("signMessage",
                              <<Str(path), postBody, Str(privateKey)>>, <<>>,
                              IF IsThrow(sign) THEN Rejected(sign[2]) ELSE Returned(sign)))
       /\ UNCHANGED <<auth, now>>

CallGetPublicEndpoint(endpoint, queryParams, configOverride) ==
    /\ calls' = Append(calls, Call("getPublicEndpoint",
                           <<Str(endpoint), queryParams, configOverride>>, <<>>,
                           getPublicEndpoint(auth, endpoint, queryParams, configOverride)))
    /\ UNCHANGED <<auth, now>>

\* postToPrivateEndpoint writing its headers into one headers object that
\* every request of the agent shares: the requests still in the log get the
\* headers of the newest call.
CallPostToPrivateEndpointSharedHeaders(endpoint, data, configOverride) ==
    LET out == postToPrivateEndpoint(auth, endpoint, data, configOverride)
        shared(c) ==
            IF /\ out.reqs # <<>> /\ c.reqs # <<>>
               /\ "API-Key" \in Keys(Get(c.reqs[1].config, "headers"))
            THEN [c EXCEPT !.reqs[1].config =
                     Set(@, "headers", Get(out.reqs[1].config, "headers"))]
            ELSE c
    IN /\ calls' = Append([i \in 1..Len(calls) |-> shared(calls[i])],
                          Call("postToPrivateEndpoint",
                               <<Str(endpoint), data, configOverride>>, <<>>, out))
       /\ UNCHANGED <<auth, now>>

CallPostToPrivateEndpoint(endpoint, data, configOverride) ==
    /\ calls' = Append(calls, Call("postToPrivateEndpoint",
                           <<Str(endpoint), data, configOverride>>, <<>>,
                           postToPrivateEndpoint(auth, endpoint, data, configOverride)))
    /\ UNCHANGED <<auth, now>>

\* A private client method: it reads the clock for its nonce, shapes its
\* parameters and delegates to the raw agent.
CallClientPrivate(method, queryParams) ==
    /\ calls' = Append(calls, Call(method, <<queryParams>>, <<generateNonce(now)>>,
                           ClientPrivate(method, auth, generateNonce(now), queryParams)))
    /\ UNCHANGED <<auth, now>>

\* A public client method: it shapes its parameters and delegates to the raw
\* agent.
CallClientPublic(method, queryParams) ==
    /\ calls' = Append(calls, Call(method, <<queryParams>>, <<>>,
                           ClientPublic(method, auth, queryParams)))
    /\ UNCHANGED <<auth, now>>

\* axios settles the promise of a request in flight.
TransportSettle(i, k, state, result) ==
    /\ calls[i].reqs[k].state = "pending"
    /\ calls' = [calls EXCEPT ![i].reqs[k].state = state, ![i].reqs[k].result = result]
    /\ UNCHANGED <<auth, now>>

\* The call resumes after its await.
Resume(i) ==
    /\ calls[i].status = "pending"
    /\ calls[i].reqs[Len(calls[i].reqs)].state # "pending"
    /\ calls' = [calls EXCEPT ![i] = AwaitAxios(calls[i])]
    /\ UNCHANGED <<auth, now>>

\* axios settles a request in flight, or a call resumes after its await.
Transport ==
    \/ \E i \in 1..Len(calls) : \E k \in 1..Len(calls[i].reqs) :
          \/ \E r \in Responses : TransportSettle(i, k, "resolved", r)
          \/ \E e \in TransportErrors : TransportSettle(i, k, "rejected", e)
    \/ \E i \in 1..Len(calls) : Resume(i)

\* The agent's life: any interleaving of the operations, on plain inputs.
Next ==
    \/ Tick
    \/ /\ Len(calls) < MaxCalls
       /\ \/ \E c \in Credentials : CallUpgrade(c)
          \/ CallIsUpgraded
          \/ CallGenerateNonce
          \/ CallSignMessage("/0/private/Balance", WithNonce(7), KeyInvalid)
          \/ CallGetPublicEndpoint("Time", Undef, Undef)
          \/ \E d \in Bodies : CallPostToPrivateEndpoint("Balance", d, Undef)
          \/ \E in \in ClientInputs : CallClientPrivate(in[1], in[2])
    \/ Transport

Spec == Init /\ [][Next]_vars

\* Request shaping: few calls, on every kind of body, query and override.
NextShape ==
    \/ Tick
    \/ /\ Len(calls) < MaxShapeCalls
       /\ \/ \E k \in SignKeys, d \in SignBodies, p \in SignPaths :
                CallSignMessage(p, d, k)
          \/ \E e \in {"Time", "Ticker"}, q \in Queries, o \in Overrides :
                CallGetPublicEndpoint(e, q, o)
          \/ \E d \in ShapeBodies, o \in Overrides :
                CallPostToPrivateEndpoint("Balance", d, o)
          \/ \E in \in ShapeClientInputs : CallClientPrivate(in[1], in[2])
          \/ \E in \in PublicInputs : CallClientPublic(in[1], in[2])
    \/ Transport

SpecShape == Init /\ [][NextShape]_vars

\* The private client methods, each on the parameters its signature allows.
NextClient ==
    \/ Tick
    \/ /\ Len(calls) < MaxClientCalls
       /\ \E in \in ClientCalls : CallClientPrivate(in[1], in[2])
    \/ Transport

SpecClient == Init /\ [][NextClient]_vars

(* ------------------------------ properties ----------------------------- *)

IsPrivateCall(c) == c.op = "postToPrivateEndpoint" \/ c.op \in PrivateMethods
IsPublicCall(c) == c.op = "getPublicEndpoint" \/ c.op \in PublicMethods
IsEndpointCall(c) == IsPrivateCall(c) \/ IsPublicCall(c)
Dispatched(c) == c.reqs # <<>>

\* The configuration of the request a call handed to axios, and its headers.
Request(c) == c.reqs[1].config
Header(c, name) == Get(Get(Request(c), "headers"), name)

\* The body a dispatched private call passed to postToPrivateEndpoint.
Body(c) == c.post[1][2]

HoldsInvalidKey(a) == Truthy(a) /\ ~IsValidBase64(Get(a, "privateKey")[2])

\* A client method that throws while shaping its parameters.
ShapingThrows(c) ==
    /\ c.op \in PrivateMethods \ {"getAccountBalance", "getTradeBalance",
                                  "getOpenOrders", "getClosedOrders", "queryOrdersInfo",
                                  "getTradesHistory", "getLedgersInfo"}
    /\ ~IsObj(c.args[1])

\* C1: a private call (direct or through a client method) made while the
\* agent holds no credentials is rejected and hands nothing to the transport.
C1_AuthGate ==
    \A i \in 1..Len(calls) :
        IsPrivateCall(calls[i]) /\ ~Truthy(calls[i].authAt)
            => /\ calls[i].status = "rejected"
               /\ calls[i].reqs = <<>>
               /\ calls[i].post = <<>>

C1_Witness ==
    \E i, j \in 1..Len(calls) :
        /\ calls[i].op = "postToPrivateEndpoint" /\ ~Truthy(calls[i].authAt)
        /\ calls[j].op \in PrivateMethods /\ ~Truthy(calls[j].authAt)
        /\ calls[i].value = NotAuthenticated

\* C2: every value generateNonce returns is strictly greater than every value
\* an earlier call returned, also within one clock tick.
C2_NonceStrictlyIncreasing ==
    \A i, j \in 1..Len(calls) :
        i < j /\ calls[i].gen # <<>> /\ calls[j].gen # <<>>
            => calls[i].gen[1] < calls[j].gen[1]

\* C3: the nonces of the requests that private client methods hand to the
\* transport under one credential pair strictly increase in dispatch order.
C3_DispatchedNoncesIncrease ==
    \A i, j \in 1..Len(calls) :
        /\ i < j
        /\ calls[i].op \in PrivateMethods /\ Dispatched(calls[i])
        /\ calls[j].op \in PrivateMethods /\ Dispatched(calls[j])
        /\ calls[i].authAt = calls[j].authAt
        => Get(Body(calls[i]), "nonce")[2] < Get(Body(calls[j]), "nonce")[2]

WellFormedAuth ==
    \/ auth = Undef
    \/ /\ Keys(auth) = {"publicKey", "privateKey"}
       /\ Get(auth, "publicKey")[1] = "str"
       /\ Get(auth, "privateKey")[1] = "str"

C5_NoDowngrade ==
    /\ []WellFormedAuth
    /\ [][Truthy(isUpgraded(auth)) => Truthy(isUpgraded(auth'))]_vars

C5_Witness ==
    /\ Len(calls) = MaxCalls
    /\ Truthy(isUpgraded(auth))
    /\ \E i, j \in 1..Len(calls) :
          /\ calls[i].op = "upgrade" /\ Truthy(calls[i].authAt)
          /\ IsEndpointCall(calls[j]) /\ calls[j].status # "pending"

\* C6 as stated: every private request handed to the transport carries a
\* nonce that was generated during that very call, whatever body was passed.
C6_AgentIsSoleNonceSource ==
    \A i \in 1..Len(calls) :
        IsPrivateCall(calls[i]) /\ Dispatched(calls[i])
            => /\ calls[i].gen # <<>>
               /\ Get(Body(calls[i]), "nonce") = Num(calls[i].gen[Len(calls[i].gen)])
               /\ Get(Request(calls[i]), "data") = Str(QsStringify(Body(calls[i])))

\* C6 amended: postToPrivateEndpoint generates no nonce and transmits the body
\* exactly as it was passed; the nonce of a request made through a client
\* method is the one value that method generated.
C6_NonceFromClientMethod ==
    \A i \in 1..Len(calls) :
        IsPrivateCall(calls[i]) /\ Dispatched(calls[i])
            => /\ Get(Request(calls[i]), "data") = Str(QsStringify(Body(calls[i])))
               /\ calls[i].op \in PrivateMethods =>
                     /\ Len(calls[i].gen) = 1
                     /\ Get(Body(calls[i]), "nonce") = Num(calls[i].gen[1])
               /\ calls[i].op = "postToPrivateEndpoint" =>
                     /\ calls[i].gen = <<>>
                     /\ Body(calls[i]) = calls[i].args[2]

C6_Witness ==
    \E i \in 1..Len(calls) :
        /\ calls[i].op = "postToPrivateEndpoint" /\ Dispatched(calls[i])
        /\ "nonce" \notin Keys(calls[i].args[2])
        /\ Get(Request(calls[i]), "data") = Str("")

\* C7: a dispatched private request is a POST to /{version}/private/{name}
\* with the current public key, the signature of that path and body under
\* the current private key, and the URL-encoding of the signed body.
C7_PrivateEnvelope ==
    \A i \in 1..Len(calls) :
        IsPrivateCall(calls[i]) /\ Dispatched(calls[i]) =>
            LET c == calls[i]
                p == c.post[1]
                version == IF "version" \in Keys(p[3]) THEN Get(p[3], "version")
                           ELSE Num(0)
                path == "/" \o JsToString(version) \o "/private/" \o p[1][2]
            IN /\ Len(c.post) = 1
               /\ c.op = "postToPrivateEndpoint" => p = c.args
               /\ Get(Request(c), "method") = Str("POST")
               /\ Get(Request(c), "url") = Str(path)
               /\ Header(c, "API-Key") = Get(c.authAt, "publicKey")
               /\ Header(c, "API-Sign") = signMessage(path, p[2], Get(c.authAt, "privateKey"))
               /\ Get(Request(c), "data") = Str(QsStringify(p[2]))

C7_Witness ==
    \E i \in 1..Len(calls) :
        /\ calls[i].op = "postToPrivateEndpoint" /\ Dispatched(calls[i])
        /\ "version" \in Keys(calls[i].args[3])
        /\ "otp" \in Keys(calls[i].args[2])
        /\ Get(Request(calls[i]), "url") = Str("/1/private/Balance")

\* C8: the root URL, timeout and version of a dispatched request are the
\* override's where it gives them and the defaults where it does not.
C8_ConfigOverride ==
    \A i \in 1..Len(calls) :
        calls[i].op \in {"getPublicEndpoint", "postToPrivateEndpoint"}
        /\ Dispatched(calls[i]) =>
            LET c == calls[i]
                o == c.args[3]
                rootUrl == IF "rootUrl" \in Keys(o) THEN Get(o, "rootUrl")
                           ELSE Str("https://api.kraken.com")
                timeout == IF "timeout" \in Keys(o) THEN Get(o, "timeout")
                           ELSE Num(15000)
                version == IF "version" \in Keys(o) THEN Get(o, "version")
                           ELSE Num(0)
                kind == IF c.op = "getPublicEndpoint" THEN "public" ELSE "private"
                query == IF c.op = "getPublicEndpoint"
                         THEN "?" \o QsStringify(c.args[2]) ELSE ""
            IN /\ Get(Request(c), "baseURL") = rootUrl
               /\ Get(Request(c), "timeout") = timeout
               /\ Get(Request(c), "url") =
                     Str("/" \o JsToString(version) \o "/" \o kind \o "/"
                             \o c.args[1][2] \o query)

\* C9 as stated: with a private key that is not valid base64, signMessage
\* fails with InvalidKeyEncoding and a private call is rejected with it
\* before anything reaches the transport.
C9_InvalidKeyRejected ==
    \A i \in 1..Len(calls) :
        /\ calls[i].op = "signMessage" /\ ~IsValidBase64(calls[i].args[3][2])
              => /\ calls[i].status = "rejected"
                 /\ calls[i].value = Str("InvalidKeyEncoding")
        /\ IsPrivateCall(calls[i]) /\ HoldsInvalidKey(calls[i].authAt)
              => /\ calls[i].status = "rejected"
                 /\ calls[i].value = Str("InvalidKeyEncoding")
                 /\ calls[i].reqs = <<>>

\* C9 amended: with a private key that is not valid base64, signMessage
\* returns a signature, and a private call that reaches postToPrivateEndpoint
\* is handed to the transport once, carrying that signature.
C9_InvalidKeyStillSigns ==
    \A i \in 1..Len(calls) :
        /\ calls[i].op = "signMessage" /\ ~IsValidBase64(calls[i].args[3][2])
              => /\ calls[i].status = "returned"
                 /\ calls[i].value[1] = "str"
        /\ IsPrivateCall(calls[i]) /\ HoldsInvalidKey(calls[i].authAt)
           /\ ~ShapingThrows(calls[i])
              => /\ Len(calls[i].reqs) = 1
                 /\ Header(calls[i], "API-Sign")[1] = "str"
                 /\ calls[i].value # Str("InvalidKeyEncoding")

C9_Witness ==
    \E i, j \in 1..Len(calls) :
        /\ calls[i].op = "signMessage" /\ ~IsValidBase64(calls[i].args[3][2])
        /\ IsPrivateCall(calls[j]) /\ HoldsInvalidKey(calls[j].authAt)
        /\ Len(calls[j].reqs) = 1

\* C10: an endpoint call hands at most one request to the transport; it
\* settles as that request settles, with the same value; a call that fails
\* locally has handed nothing to the transport.
C10_NoRetryNoPartialSuccess ==
    \A i \in 1..Len(calls) :
        IsEndpointCall(calls[i]) =>
            LET c == calls[i]
            IN /\ Len(c.reqs) <= 1
               /\ c.status \in {"pending", "resolved", "rejected"}
               /\ c.status = "pending" => Len(c.reqs) = 1
               /\ c.status = "resolved" =>
                     /\ Len(c.reqs) = 1
                     /\ c.reqs[1].state = "resolved"
                     /\ c.value = c.reqs[1].result
               /\ c.status = "rejected" =>
                     \/ c.reqs = <<>> /\ c.value \in {NotAuthenticated, TypeError}
                     \/ /\ Len(c.reqs) = 1
                        /\ c.reqs[1].state = "rejected"
                        /\ c.value = c.reqs[1].result
                        /\ c.value \in TransportErrors

C10_Witness ==
    \E i, j \in 1..Len(calls) :
        /\ IsEndpointCall(calls[i]) /\ calls[i].status = "rejected"
        /\ Len(calls[i].reqs) = 1
        /\ IsEndpointCall(calls[j]) /\ calls[j].status = "resolved"

\* C11: in either credential state a public call hands exactly one request to
\* the transport, a GET of /{version}/public/{name}?{query URL-encoded} with
\* neither an API-Key nor an API-Sign header; getTickerInformation asks for
\* /0/public/Ticker?pair=p and forwards no field but the pair.
C11_PublicEndpointShaping ==
    \A i \in 1..Len(calls) :
        LET c == calls[i] IN
        /\ c.op = "getPublicEndpoint" =>
              LET version == IF "version" \in Keys(c.args[3])
                             THEN Get(c.args[3], "version") ELSE Num(0)
              IN /\ Len(c.reqs) = 1
                 /\ Get(Request(c), "method") = Str("GET")
                 /\ Get(Request(c), "url") =
                        Str("/" \o JsToString(version) \o "/public/" \o c.args[1][2]
                                \o "?" \o QsStringify(c.args[2]))
                 /\ Keys(Get(Request(c), "headers")) \cap {"API-Key", "API-Sign"} = {}
        /\ c.op = "getTickerInformation" =>
              /\ Len(c.reqs) = 1
              /\ Get(Request(c), "method") = Str("GET")
              /\ Get(Request(c), "url") =
                     Str("/0/public/Ticker?pair=" \o Get(c.args[1], "pair")[2])
              /\ Keys(Get(Request(c), "headers")) \cap {"API-Key", "API-Sign"} = {}

C11_Witness ==
    \E i \in 1..Len(calls) :
        /\ calls[i].op = "getTickerInformation" /\ Truthy(calls[i].authAt)
        /\ "since" \in Keys(calls[i].args[1])
        /\ Get(Request(calls[i]), "url") = Str("/0/public/Ticker?pair=ETHUSD")

\* The fields of an object, in order, as <<name, value>> pairs.
Props(o) == o[2]

\* C12: a dispatched addStandardOrder whose parameters give close[price] = v
\* passes, signs and transmits a body with exactly one field named
\* close[price], holding v itself: no close object, no object-valued field,
\* and the field goes on the wire under its own (percent-encoded) name.
C12_ClosePriceFlat ==
    \A i \in 1..Len(calls) :
        LET c == calls[i] IN
        (/\ c.op = "addStandardOrder" /\ Dispatched(c)
         /\ Get(c.args[1], "close[price]") # Undef) =>
            LET v == Get(c.args[1], "close[price]")
                body == Body(c)
                wire == QsPairs(Props(body))
            IN /\ Cardinality({k \in 1..Len(Props(body)) :
                                  Props(body)[k][1] = "close[price]"}) = 1
               /\ Get(body, "close[price]") = v
               /\ "close" \notin Keys(body)
               /\ \A k \in 1..Len(Props(body)) : ~IsObj(Props(body)[k][2])
               /\ \E k \in 1..Len(wire) : wire[k] = "close%5Bprice%5D=" \o JsToString(v)
               /\ Get(Request(c), "data") = Str(JoinAmp(wire))
               /\ Header(c, "API-Sign") =
                      signMessage("/0/private/AddOrder", body,
                                  Get(c.authAt, "privateKey"))

C12_Witness ==
    \E i \in 1..Len(calls) :
        /\ calls[i].op = "addStandardOrder" /\ Dispatched(calls[i])
        /\ Get(calls[i].args[1], "close[price]") = Num(3)
        /\ Get(Body(calls[i]), "close[price]") = Num(3)
        /\ calls[i].reqs[1].state = "resolved"

\* C13: on an agent holding credentials, every private client method called
\* with the arguments its signature allows (an optional parameter object may
\* be left out) hands exactly one request to the transport, whose body
\* carries the nonce; none fails before dispatch.
C13_EveryMethodDispatches ==
    \A i \in 1..Len(calls) :
        LET c == calls[i] IN
        (/\ c.op \in PrivateMethods /\ Truthy(c.authAt)
         /\ \/ IsObj(c.args[1])
            \/ c.op \in OptionalParamMethods \cup {"getAccountBalance"}) =>
            /\ Len(c.reqs) = 1
            /\ Len(c.post) = 1
            /\ Get(Body(c), "nonce") = Num(c.gen[1])

\* The signature the claim describes, from the abstract hash, MAC and
\* encodings: base64(HMAC(base64decode(key), path ++ SHA256(nonce ++ body))).
ClaimedSignature(path, nonce, body, key) ==
    Str(HmacSha512Base64(BufferFromBase64(key),
                         path \o Sha256Latin1(nonce \o QsStringify(body))))

\* C14: signMessage(path, body, key) is base64(HMAC-SHA512(base64decode(key),
\* path ++ SHA256(decimal(body.nonce) ++ urlencode(body)))); equal arguments
\* give equal signatures; a body without a nonce is signed too, without an
\* error, and its signature differs from that of every body with a nonce.
C14_SignatureStructure ==
    \A i \in 1..Len(calls) :
        LET c == calls[i] IN
        c.op = "signMessage" =>
            LET path == c.args[1][2]
                body == c.args[2]
                key == c.args[3][2]
            IN /\ c.status = "returned"
               /\ c.value[1] = "str"
               /\ "nonce" \in Keys(body) =>
                     c.value = ClaimedSignature(path, ToString(Get(body, "nonce")[2]),
                                                body, key)
               /\ "nonce" \notin Keys(body) =>
                     \A d \in SignBodies :
                         "nonce" \in Keys(d) =>
                             c.value # ClaimedSignature(path, ToString(Get(d, "nonce")[2]),
                                                        d, key)
               /\ \A j \in 1..Len(calls) :
                     calls[j].op = "signMessage" /\ calls[j].args = c.args
                         => calls[j].value = c.value

C14_Witness ==
    \E i \in 1..Len(calls) :
        /\ calls[i].op = "signMessage" /\ calls[i].status = "returned"
        /\ calls[i].args[2] = Obj(<< <<"otp", Str("123456")>> >>)
        /\ calls[i].args[3] = Str(KeyValid)
        /\ calls[i].value # ClaimedSignature(calls[i].args[1][2], "7", WithNonce(7),
                                             KeyValid)

\* C15: every declared parameter field the caller supplies to a private
\* client method is in the body handed to the transport, under the same name
\* and with the same value; none is dropped or renamed.
C15_ParametersForwarded ==
    \A i \in 1..Len(calls) :
        LET c == calls[i] IN
        (c.op \in PrivateMethods /\ Dispatched(c) /\ IsObj(c.args[1])) =>
            \A k \in 1..Len(DeclaredFields(c.op)) :
                LET field == DeclaredFields(c.op)[k]
                IN field \in Keys(c.args[1]) =>
                      /\ field \in Keys(Body(c))
                      /\ Get(Body(c), field) = Get(c.args[1], field)

\* C16: two different private client methods never post to the same
\* endpoint; in particular the six funding methods use six different names.
C16_OwnEndpoint ==
    \A i, j \in 1..Len(calls) :
        (/\ calls[i].op \in PrivateMethods /\ Dispatched(calls[i])
         /\ calls[j].op \in PrivateMethods /\ Dispatched(calls[j])
         /\ calls[i].op # calls[j].op) =>
            /\ calls[i].post[1][1] # calls[j].post[1][1]
            /\ Get(Request(calls[i]), "url") # Get(Request(calls[j]), "url")

\* The API-Key and API-Sign of a dispatched private request are those of the
\* credential pair `pair`, for the request's own path and body.
CarriesPair(c, pair) ==
    /\ Header(c, "API-Key") = Get(pair, "publicKey")
    /\ Header(c, "API-Sign") =
           signMessage(Get(Request(c), "url")[2], Body(c), Get(pair, "privateKey"))

\* C17: under every interleaving of upgrades with private calls in flight and
\* new ones, each request handed to the transport carries the key and the
\* signature of one credential pair, the pair the agent held when the call
\* passed the credential check, and of no other pair; no later step, an
\* upgrade included, alters a request already handed over.
C17_CredentialPairAtomic ==
    /\ [](\A i \in 1..Len(calls) :
             IsPrivateCall(calls[i]) /\ Dispatched(calls[i]) =>
                 /\ Truthy(calls[i].authAt)
                 /\ CarriesPair(calls[i], calls[i].authAt)
                 /\ \A other \in Credentials \ {calls[i].authAt} :
                       /\ Header(calls[i], "API-Key") # Get(other, "publicKey")
                       /\ Header(calls[i], "API-Sign") #
                              signMessage(Get(Request(calls[i]), "url")[2],
                                          Body(calls[i]), Get(other, "privateKey")))
    /\ [][\A i \in 1..Len(calls) :
             /\ i <= Len(calls')
             /\ Len(calls'[i].reqs) >= Len(calls[i].reqs)
             /\ \A k \in 1..Len(calls[i].reqs) :
                   calls'[i].reqs[k].config = calls[i].reqs[k].config]_vars

C17_Witness ==
    \E i, j \in 1..Len(calls) :
        /\ i < j
        /\ IsPrivateCall(calls[i]) /\ Dispatched(calls[i])
        /\ calls[i].reqs[1].state = "pending"
        /\ calls[j].op = "upgrade"
        /\ auth # calls[i].authAt
        /\ CarriesPair(calls[i], calls[i].authAt)
        /\ ~CarriesPair(calls[i], auth)

====
